---- MODULE Spec2Model ----
(***************************************************************************)
(* Centsible Game: the event selector, effect applier, monthly tick and    *)
(* the turn loop of the React front end, as a state machine.               *)
(*                                                                         *)
(* Numbers.  Every amount the built-in catalogs and presets use is an      *)
(* integer, and so are the inputs enumerated here.  A uniform draw of      *)
(* Math.random() is a value u/1000 of [0,1), u \in 0..999.  A sampling     *)
(* weight is kept as 100 times its value, so that the same-tag factor 0.35 *)
(* is the integer factor 35.                                               *)
(*                                                                         *)
(* Left out: the narrative log (GameState.log, TickResult.logs), display   *)
(* text (title, description, label, explain) and the long-press timer.     *)
(***************************************************************************)
EXTENDS Integers, Sequences, FiniteSets, TLC

VARIABLES
  game,          \* App.tsx useState<GameState>
  event,         \* App.tsx useState<GameEvent>: the presented event
  choiceMade,    \* App.tsx useState<EventChoice | null>: the committed choice's id
  showSurvey,    \* App.tsx useState(false)
  profile,       \* App.tsx useState({... survey form ...})
  loadingAi,     \* App.tsx useState(false)
  aiError,       \* App.tsx useState<string | null>: TRUE when a message is set
  customEvents,  \* events.ts: export let customEvents
  storage,       \* localStorage[KEY]: {} or the one saved JSON document
  inflight,      \* the generation requests awaiting a response (their profiles)
  reloads,       \* the number of times the page has been reloaded (App remounted)
  last           \* the handler or call that produced this state, with its inputs

vars == <<game, event, choiceMade, showSurvey, profile, loadingAi, aiError,
          customEvents, storage, inflight, reloads, last>>

\* JavaScript's undefined / null for an optional field.
Undefined == "undefined"

----------------------------------------------------------------------------
(* Bounds of the model *)

\* Play stops advancing at this month (handleNext is not taken beyond it):
\* in the whole application, and in play of the built-in scenarios alone.
MaxMonth == 2
MaxPlayMonth == 5
MaxReloadMonth == 2
MaxOutcomeMonth == 2
MaxDeckMonth == 3

\* The page is reloaded at most this many times in the reload model.
MaxReloads == 1

\* Uniform draws of Math.random(), in thousandths: in the application, and
\* in the calls of single functions.
Draws == {0, 999}
FnDraws == {0, 400, 999}

\* The longest events array handed to setCustomEvents on its own.
MaxDeckLen == 2

----------------------------------------------------------------------------
(* gameState.ts *)

StatKeys == {"month", "budget", "impulse", "savings", "debt", "income",
             "fixedExpenses", "happiness", "stress"}

baseStats ==
  [month |-> 1, budget |-> 0, impulse |-> 30, savings |-> 1000, debt |-> 0,
   income |-> 2500, fixedExpenses |-> 1800, happiness |-> 60, stress |-> 40]

initialStatsForScenario(scenarioId) ==
  CASE scenarioId = "student" ->
         [month |-> 1, budget |-> 0, impulse |-> 35, savings |-> 300,
          debt |-> 2000, income |-> 900, fixedExpenses |-> 800,
          happiness |-> 65, stress |-> 50]
    [] scenarioId = "startup" ->
         [month |-> 1, budget |-> 0, impulse |-> 45, savings |-> 3000,
          debt |-> 8000, income |-> 4200, fixedExpenses |-> 1500,
          happiness |-> 70, stress |-> 55]
    [] OTHER -> baseStats

\* lastSeen is a function from the ids seen so far to months; {} at the start.
EmptyMap == [k \in {} |-> 0]

\* An absent winCondition (undefined), as a record with no stat.
NoWinCondition == [stat |-> Undefined, operator |-> Undefined, value |-> 0]

initialGameState ==
  [stats |-> baseStats, gameOver |-> FALSE, result |-> Undefined,
   lastEventId |-> Undefined, lastTag |-> Undefined, lastSeen |-> EmptyMap,
   scenarioId |-> "classic", goalDescription |-> Undefined,
   winCondition |-> NoWinCondition]

----------------------------------------------------------------------------
(* events.ts: the catalogs.  An effect delta is a function from the stat   *)
(* names it carries to deltas; a condition is named by what it tests.      *)

NoEffect == [k \in {} |-> 0]

Choice(id, effects) == [id |-> id, effects |-> effects]

\* (s) => s.savings >= 1000 && s.debt > 0   and   (s) => s.savings > 100
EvalCondition(cond, s) ==
  CASE cond = "savings>=1000&&debt>0" -> s.savings >= 1000 /\ s.debt > 0
    [] cond = "savings>100" -> s.savings > 100
    [] OTHER -> TRUE

HasCondition(ev) == "condition" \in DOMAIN ev

\* A variant that takes every condition as true.
ConditionOk_Always(ev, s) == TRUE

\* !ev.condition || ev.condition(stats)
ConditionOk(ev, s) == ~HasCondition(ev) \/ EvalCondition(ev.condition, s)

debtEvent ==
  [id |-> "pay-debt-custom", tag |-> "finance", cooldown |-> 2,
   condition |-> "savings>=1000&&debt>0",
   choices |-> <<
     Choice("pay-500", [savings |-> -500, debt |-> -500, stress |-> -2, happiness |-> 2]),
     Choice("pay-1000", [savings |-> -1000, debt |-> -1000, stress |-> -4, happiness |-> 4]),
     Choice("skip", NoEffect) >>]

expenseEvent ==
  [id |-> "cut-expense-custom", tag |-> "finance", cooldown |-> 4,
   choices |-> <<
     Choice("cut-100", [fixedExpenses |-> -100, stress |-> 1, happiness |-> 1]),
     Choice("cut-200", [fixedExpenses |-> -200, happiness |-> -2]),
     Choice("skip", NoEffect) >>]

\* A variant that appends to the catalog already installed.
setCustomEvents_Additive(events) ==
  customEvents \o events \o <<debtEvent, expenseEvent>>

\* customEvents = [...events, debtEvent, expenseEvent]
setCustomEvents(events) == events \o <<debtEvent, expenseEvent>>

classicEvents == <<
  [id |-> "pay-debt", tag |-> "finance", cooldown |-> 2,
   condition |-> "savings>=1000&&debt>0",
   choices |-> <<
     Choice("pay-500", [savings |-> -500, debt |-> -500, stress |-> -2, happiness |-> 2]),
     Choice("pay-1000", [savings |-> -1000, debt |-> -1000, stress |-> -4, happiness |-> 4]),
     Choice("skip", NoEffect) >>],
  [id |-> "negotiate-bills", tag |-> "finance", cooldown |-> 4,
   choices |-> <<
     Choice("negotiate", [fixedExpenses |-> -100, stress |-> 1, happiness |-> 1]),
     Choice("switch", [fixedExpenses |-> -200, happiness |-> -2]),
     Choice("skip", NoEffect) >>],
  [id |-> "side-gig", tag |-> "career", cooldown |-> 3,
   choices |-> <<
     Choice("accept", [savings |-> 200, stress |-> 5]),
     Choice("decline", NoEffect) >>],
  [id |-> "impulse-buy", tag |-> "risk", cooldown |-> 2,
   condition |-> "savings>100",
   choices |-> <<
     Choice("buy", [savings |-> -100, happiness |-> 10, impulse |-> 10]),
     Choice("skip", [impulse |-> -5, stress |-> 2]) >>],
  [id |-> "unexpected-bill", tag |-> "finance", cooldown |-> 4,
   choices |-> <<
     Choice("pay", [savings |-> -300, stress |-> 5]),
     Choice("defer", [debt |-> 300, stress |-> 10]) >>],
  [id |-> "rent-change", tag |-> "lifestyle", cooldown |-> 6,
   choices |-> <<
     Choice("upgrade", [fixedExpenses |-> 400, happiness |-> 8]),
     Choice("same", NoEffect),
     Choice("roommate", [fixedExpenses |-> -300, happiness |-> -5]) >>],
  [id |-> "annual-raise", tag |-> "career", cooldown |-> 6,
   choices |-> <<
     Choice("accept", [income |-> 200, stress |-> 5]),
     Choice("decline", NoEffect) >>] >>

studentEvents == <<
  [id |-> "pay-debt-student", tag |-> "finance", cooldown |-> 2,
   condition |-> "savings>=1000&&debt>0",
   choices |-> <<
     Choice("pay-500", [savings |-> -500, debt |-> -500, stress |-> -2, happiness |-> 2]),
     Choice("pay-1000", [savings |-> -1000, debt |-> -1000, stress |-> -4, happiness |-> 4]),
     Choice("skip", NoEffect) >>],
  [id |-> "find-roommate", tag |-> "lifestyle", cooldown |-> 6,
   choices |-> <<
     Choice("find", [fixedExpenses |-> -200, happiness |-> -2, stress |-> 1]),
     Choice("skip", NoEffect) >>],
  [id |-> "textbooks", tag |-> "finance", cooldown |-> 4,
   choices |-> <<
     Choice("buy-new", [savings |-> -250]),
     Choice("buy-used", [savings |-> -120, stress |-> 2]),
     Choice("borrow", [stress |-> 5]) >>],
  [id |-> "campus-job", tag |-> "career", cooldown |-> 3,
   choices |-> <<
     Choice("apply", [savings |-> 150, stress |-> 5]),
     Choice("skip", [happiness |-> 2]) >>],
  [id |-> "roommate-conflict", tag |-> "lifestyle", cooldown |-> 5,
   choices |-> <<
     Choice("cover", [savings |-> -250, stress |-> 5]),
     Choice("landlord", [stress |-> 5]) >>] >>

startupEvents == <<
  [id |-> "pay-debt-startup", tag |-> "finance", cooldown |-> 2,
   condition |-> "savings>=1000&&debt>0",
   choices |-> <<
     Choice("pay-500", [savings |-> -500, debt |-> -500, stress |-> -2, happiness |-> 2]),
     Choice("pay-1000", [savings |-> -1000, debt |-> -1000, stress |-> -4, happiness |-> 4]),
     Choice("skip", NoEffect) >>],
  [id |-> "cut-office-costs", tag |-> "lifestyle", cooldown |-> 6,
   choices |-> <<
     Choice("move-remote", [fixedExpenses |-> -300, happiness |-> -2, stress |-> 1]),
     Choice("downsize", [fixedExpenses |-> -150, happiness |-> -1]),
     Choice("skip", NoEffect) >>],
  [id |-> "pitch-trip", tag |-> "career", cooldown |-> 4,
   choices |-> <<
     Choice("go", [savings |-> -300, stress |-> 10]),
     Choice("remote", [happiness |-> -2]) >>],
  [id |-> "equity-vs-salary", tag |-> "finance", cooldown |-> 6,
   choices |-> <<
     Choice("equity", [income |-> -200, happiness |-> 5]),
     Choice("salary", NoEffect) >>],
  [id |-> "coworking", tag |-> "lifestyle", cooldown |-> 6,
   choices |-> <<
     Choice("rent", [fixedExpenses |-> 200, happiness |-> 3]),
     Choice("home", NoEffect) >>] >>

\* scenarioEvents[scenarioId] ?? classicEvents.  The record's custom entry is
\* the array customEvents named when the module was loaded: the empty one.
scenarioEvents(scenarioId) ==
  CASE scenarioId = "classic" -> classicEvents
    [] scenarioId = "student" -> studentEvents
    [] scenarioId = "startup" -> startupEvents
    [] scenarioId = "custom" -> << >>
    [] OTHER -> classicEvents

----------------------------------------------------------------------------
(* events.ts: selection and effects *)

\* What indexing an array of events outside its bounds yields: undefined.
UndefinedEvent == [id |-> Undefined]

\* arr[i] for a 0-based index i.
At(arr, i) == IF i + 1 \in 1..Len(arr) THEN arr[i + 1] ELSE UndefinedEvent

RECURSIVE SumWeights(_, _)
SumWeights(items, i) ==
  IF i > Len(items) THEN 0 ELSE items[i].weight + SumWeights(items, i + 1)

\* for (const x of items) { if (r < x.weight) return x.item; r -= x.weight; }
\* return items[items.length - 1].item;   r and the weights in 1/100000.
RECURSIVE WalkItems(_, _, _)
WalkItems(items, i, r) ==
  IF i > Len(items) THEN items[Len(items)].item  \* items is never empty here
  ELSE IF r < items[i].weight * 1000 THEN items[i].item
  ELSE WalkItems(items, i + 1, r - items[i].weight * 1000)

\* r = Math.random() * total, with Math.random() = u/1000.
weightedRandom(items, u) == WalkItems(items, 1, u * SumWeights(items, 1))

\* A variant that rounds up instead of down: it can index past the end.
RandomIndex_Ceil(len, u) == (u * len + 999) \div 1000

\* Math.floor(Math.random() * arr.length)
RandomIndex(len, u) == (u * len) \div 1000

\* ev.cooldown ?? 0
CooldownOf(ev) == IF "cooldown" \in DOMAIN ev THEN ev.cooldown ELSE 0

\* A variant whose cooldown ends one month early.
OnCooldown_OneShort(ev, lastSeen, now) ==
  ev.id \in DOMAIN lastSeen /\ now - lastSeen[ev.id] < CooldownOf(ev) - 1

\* now - (lastSeen?.[ev.id] ?? -Infinity) < cd
OnCooldown(ev, lastSeen, now) ==
  ev.id \in DOMAIN lastSeen /\ now - lastSeen[ev.id] < CooldownOf(ev)

\* A variant of the filter that lets the last event through.
IsCandidate_AllowRepeat(ev, g) ==
  /\ ConditionOk(ev, g.stats)
  /\ ~OnCooldown(ev, g.lastSeen, g.stats.month)

\* The filter of pickEvent: not the last event, condition true, off cooldown.
IsCandidate(ev, g) ==
  /\ ev.id # g.lastEventId
  /\ ConditionOk(ev, g.stats)
  /\ ~OnCooldown(ev, g.lastSeen, g.stats.month)

\* A variant without the same-tag damping.
WeightOf_NoDamping(ev, lastTag) ==
  (IF "weight" \in DOMAIN ev THEN ev.weight ELSE 1) * 100

\* let w = ev.weight ?? 1; if (lastTag && ev.tag === lastTag) w *= 0.35;
\* (100 times the weight)
WeightOf(ev, lastTag) ==
  LET w == IF "weight" \in DOMAIN ev THEN ev.weight ELSE 1
  IN IF lastTag # Undefined /\ ev.tag = lastTag THEN w * 35 ELSE w * 100

\* A variant that resolves every built-in scenario to classicEvents.
ResolvePack_ClassicOnly(scenarioId, custom) ==
  IF scenarioId = "custom" /\ Len(custom) > 0 THEN custom ELSE classicEvents

\* sourcePack, then pack = sourcePack.length > 0 ? sourcePack : classicEvents
ResolvePack(scenarioId, custom) ==
  LET sourcePack == IF scenarioId = "custom" THEN custom
                    ELSE scenarioEvents(scenarioId)
  IN IF Len(sourcePack) > 0 THEN sourcePack ELSE classicEvents

pickEvent(g, custom, u) ==
  LET pack == ResolvePack(g.scenarioId, custom)
      Cand(ev) == IsCandidate(ev, g)
      Elig(ev) == ConditionOk(ev, g.stats)
      candidates == SelectSeq(pack, Cand)
      weighted == [i \in 1..Len(candidates) |->
                     [item |-> candidates[i],
                      weight |-> WeightOf(candidates[i], g.lastTag)]]
      fallback == SelectSeq(pack, Elig)
      classicFallback == SelectSeq(classicEvents, Elig)
      lastResort == At(classicFallback, RandomIndex(Len(classicFallback), u))
  IN IF Len(weighted) = 0
     THEN IF Len(fallback) > 0
          THEN At(fallback, RandomIndex(Len(fallback), u))
          ELSE IF lastResort # UndefinedEvent THEN lastResort
               ELSE classicEvents[1]
     ELSE weightedRandom(weighted, u)

\* A variant that keeps savings from going below 0.
applyEffects_FloorSavings(stats, effects) ==
  LET next == [k \in DOMAIN stats |->
                 IF k \in DOMAIN effects THEN stats[k] + effects[k] ELSE stats[k]]
  IN [next EXCEPT !.budget = next.income - next.fixedExpenses,
                  !.savings = IF next.savings < 0 THEN 0 ELSE next.savings]

\* A variant that merges the deltas and leaves budget as merged.
applyEffects_NoRecompute(stats, effects) ==
  [k \in DOMAIN stats |->
     IF k \in DOMAIN effects THEN stats[k] + effects[k] ELSE stats[k]]

\* { ...stats, ...entries(effects).map(([k, v]) => [k, stats[k] + (v ?? 0)]) },
\* then next.budget = next.income - next.fixedExpenses.
applyEffects(stats, effects) ==
  LET next == [k \in DOMAIN stats |->
                 IF k \in DOMAIN effects THEN stats[k] + effects[k] ELSE stats[k]]
  IN [next EXCEPT !.budget = next.income - next.fixedExpenses]

----------------------------------------------------------------------------
(* finance.ts *)

Min(a, b) == IF a < b THEN a ELSE b
Max(a, b) == IF a > b THEN a ELSE b

\* A variant that only applies the lower bound.
clamp_NoCeiling(n, min, max) == Max(min, n)

clamp(n, min, max) == Max(min, Min(max, n))

\* Math.round of a non-negative num/den: halves go up.
RoundDiv(num, den) == (2 * num + den) \div (2 * den)

\* A variant without the cap of 0.4 on the probability.
ImpulseTriggered_NoCap(impulse, u1) == u1 < 4 * impulse

\* Math.random() < Math.min(0.4, prev.impulse / 100 * 0.4)
ImpulseTriggered(impulse, u1) == u1 < Min(400, 4 * impulse)

\* Math.round(base + Math.random() * swing), base = 10, swing = impulse * 2
variableSpendOf(impulse, u1, u2) ==
  IF ImpulseTriggered(impulse, u1)
  THEN RoundDiv(10 * 1000 + u2 * (impulse * 2), 1000)
  ELSE 0

\* A variant that always takes a deficit out of savings.
Settle_NoFloor(savings, debt, net) ==
  [savings |-> savings + net, debt |-> debt]

\* A variant that borrows the whole deficit when savings fall short.
Settle_BorrowAll(savings, debt, net) ==
  IF net >= 0 \/ savings >= -net
  THEN [savings |-> savings + net, debt |-> debt]
  ELSE [savings |-> 0, debt |-> debt + (-net)]

\* The settlement of net against savings and debt.
Settle(savings, debt, net) ==
  IF net >= 0
  THEN [savings |-> savings + net, debt |-> debt]
  ELSE LET deficit == -net
       IN IF savings >= deficit
          THEN [savings |-> savings - deficit, debt |-> debt]
          ELSE [savings |-> 0, debt |-> debt + (deficit - savings)]

\* A variant that accrues on any balance.
DebtInterest_Unguarded(debt) == RoundDiv(debt, 100)

\* A variant that rounds a half down.
DebtInterest_HalfDown(debt) ==
  IF debt > 0 THEN (debt + 49) \div 100 ELSE 0

\* if (debt > 0) debt += Math.round(debt * 0.01)
DebtInterest(debt) == IF debt > 0 THEN RoundDiv(debt, 100) ELSE 0

\* A variant that accrues on any balance.
SavingsInterest_Unguarded(savings) == RoundDiv(savings * 2, 1000)

\* if (savings > 0) savings += Math.round(savings * 0.002)
SavingsInterest(savings) == IF savings > 0 THEN RoundDiv(savings * 2, 1000) ELSE 0

\* A variant whose mood drift looks at income - fixedExpenses, before the
\* impulse spend.
TickTrace_MoodBeforeSpend(prev, u1, u2) ==
  LET variableSpend == variableSpendOf(prev.impulse, u1, u2)
      net == prev.income - prev.fixedExpenses - variableSpend
      settled == Settle(prev.savings, prev.debt, net)
      debt == settled.debt + DebtInterest(settled.debt)
      savings == settled.savings + SavingsInterest(settled.savings)
      budget == prev.income - prev.fixedExpenses
      happiness == clamp(prev.happiness + (IF budget >= 0 THEN 1 ELSE -2), 0, 100)
      stress == clamp(prev.stress + (IF budget >= 0 THEN -1 ELSE 3), 0, 100)
      impulse == clamp(prev.impulse - 1, 0, 100)
  IN [variableSpend |-> variableSpend, net |-> net, settled |-> settled,
      stats |-> [prev EXCEPT !.month = prev.month + 1, !.budget = budget,
                             !.savings = savings, !.debt = debt,
                             !.happiness = happiness, !.stress = stress,
                             !.impulse = impulse]]

\* endOfPeriodTick(prev) for the two draws u1 and u2: the returned stats, with
\* the values of its locals variableSpend and net and the balances after the
\* settlement (before interest).
TickTrace(prev, u1, u2) ==
  LET variableSpend == variableSpendOf(prev.impulse, u1, u2)
      net == prev.income - prev.fixedExpenses - variableSpend
      settled == Settle(prev.savings, prev.debt, net)
      debt == settled.debt + DebtInterest(settled.debt)
      savings == settled.savings + SavingsInterest(settled.savings)
      budget == prev.income - prev.fixedExpenses
      happiness == clamp(prev.happiness + (IF net >= 0 THEN 1 ELSE -2), 0, 100)
      stress == clamp(prev.stress + (IF net >= 0 THEN -1 ELSE 3), 0, 100)
      impulse == clamp(prev.impulse - 1, 0, 100)
  IN [variableSpend |-> variableSpend, net |-> net, settled |-> settled,
      stats |-> [prev EXCEPT !.month = prev.month + 1, !.budget = budget,
                             !.savings = savings, !.debt = debt,
                             !.happiness = happiness, !.stress = stress,
                             !.impulse = impulse]]

\* A variant that does not advance the month.
endOfPeriodTick_SameMonth(prev, u1, u2) ==
  [TickTrace(prev, u1, u2).stats EXCEPT !.month = prev.month]

\* The stats of endOfPeriodTick(prev).
endOfPeriodTick(prev, u1, u2) == TickTrace(prev, u1, u2).stats

\* A variant that updates the vector it was given in place.
prevAfterTick_InPlace(prev, u1, u2) == endOfPeriodTick(prev, u1, u2)

\* The argument of endOfPeriodTick after the call: prev is only read, the
\* result is the new object { ...prev, month: ..., ... }.
prevAfterTick(prev, u1, u2) == prev

----------------------------------------------------------------------------
(* goals.ts *)

evaluateWinCondition(stats, cond) ==
  LET current == stats[cond.stat]
  IN CASE cond.operator = "<" -> current < cond.value
       [] cond.operator = "<=" -> current <= cond.value
       [] cond.operator = ">" -> current > cond.value
       [] cond.operator = ">=" -> current >= cond.value
       [] OTHER -> FALSE

checkWin(state) ==
  CASE state.scenarioId = "classic" -> state.stats.impulse < 10
    [] state.scenarioId = "student" ->
         state.stats.debt <= 0 /\ state.stats.stress < 80
    [] state.scenarioId = "startup" -> state.stats.income > state.stats.debt
    [] state.scenarioId = "custom" /\ state.winCondition # NoWinCondition ->
         evaluateWinCondition(state.stats, state.winCondition)
    [] OTHER -> FALSE

checkLose(stats) == stats.debt > 4 * stats.income \/ stats.stress > 95

----------------------------------------------------------------------------
(* persistence.ts *)

\* The fields of a GameState that may hold undefined.
IsUndefinedField(g, k) ==
  CASE k \in {"result", "lastEventId", "lastTag", "goalDescription"} ->
         g[k] = Undefined
    [] k = "winCondition" -> g[k] = NoWinCondition
    [] OTHER -> FALSE

\* JSON.stringify(game): a document without the fields that hold undefined.
JSONstringify(g) ==
  [k \in {f \in DOMAIN g : ~IsUndefinedField(g, f)} |-> g[k]]

\* JSON.parse(raw) as GameState: a field the document lacks reads undefined.
JSONparse(raw) ==
  [k \in DOMAIN initialGameState |->
     IF k \in DOMAIN raw THEN raw[k]
     ELSE IF k = "winCondition" THEN NoWinCondition ELSE Undefined]

\* localStorage.setItem(KEY, JSON.stringify(game))
saveGame(g) == {JSONstringify(g)}

\* A stored text that is not JSON (JSON.parse throws a SyntaxError on it).
CorruptText == [unparsable |-> TRUE]

\* JSON.parse(raw) returns rather than throws.
Parses(raw) == "unparsable" \notin DOMAIN raw

\* A variant without the try/catch around JSON.parse: whatever is stored is
\* read as a game.
loadGame_NoCatch(store) == {JSONparse(raw) : raw \in store}

\* loadGame(): the parsed document; none (null) when nothing is stored or
\* when JSON.parse throws.
loadGame(store) == {JSONparse(raw) : raw \in {r \in store : Parses(r)}}

\* clearGame(): localStorage.removeItem(KEY)
clearGame(store) == {}

----------------------------------------------------------------------------
(* Inputs from outside: survey profiles and generation-service responses *)

\* App.tsx: the survey form's initial profile (the fields the game reads).
DefaultProfile ==
  [risk |-> "medium", income |-> 2500, fixedExpenses |-> 1800,
   savings |-> 1000, debt |-> 0]

\* What the player may have typed into the survey form.
Profiles ==
  { DefaultProfile,
    [risk |-> "high", income |-> 3000, fixedExpenses |-> 2900,
     savings |-> 1500, debt |-> 3000],
    [risk |-> "low", income |-> 0, fixedExpenses |-> 0, savings |-> 0,
     debt |-> 0],
    [risk |-> "medium", income |-> 2500, fixedExpenses |-> 1800,
     savings |-> -5, debt |-> 0] }

\* Generated events: no condition (JSON carries no functions), optional
\* weight and cooldown, effects that may carry a budget key.
genSocial ==
  [id |-> "gen-night-out", tag |-> "social", cooldown |-> 2,
   choices |-> <<
     Choice("go", [savings |-> -1200, happiness |-> 3, budget |-> 50]),
     Choice("stay", [stress |-> -1]) >>]

genRisk ==
  [id |-> "gen-crypto", tag |-> "risk", weight |-> 2,
   choices |-> << Choice("invest", [debt |-> 200, impulse |-> 75]) >>]

\* A generated event that reuses a structural event's id.
genDup ==
  [id |-> "pay-debt-custom", tag |-> "finance", cooldown |-> 1,
   choices |-> << Choice("pay", [savings |-> -100, debt |-> -100]) >>]

\* The events arrays a response may carry.
ResponseDecks == { << >>, <<genSocial, genRisk>> }

\* The goal a response may carry (data.goal ?? null).
NoGoal == [description |-> Undefined, winCondition |-> NoWinCondition]

Goals ==
  { NoGoal,
    [description |-> "goal",
     winCondition |-> [stat |-> "stress", operator |-> "<", value |-> 40]] }

\* The JSON bodies of an OK response: with an events array, or with the events
\* field missing (or null, a number or an object, which spread alike).
ResponseBodies ==
  { [events |-> events, goal |-> goal] : events \in ResponseDecks, goal \in Goals }
    \cup { [goal |-> goal] : goal \in Goals }

\* [...data.events, debtEvent, expenseEvent] evaluates: data.events is iterable.
Spreadable(data) == "events" \in DOMAIN data

----------------------------------------------------------------------------
(* App.tsx: the turn loop *)

\* The survey form replaces the game panel.
SurveyShown == showSurvey /\ game.scenarioId = "custom"

\* The game-over popup covers the page: only Replay and Close can be used.
PopupShown == game.gameOver

Scenarios == {"classic", "student", "startup", "custom"}

ChoicesOf(ev) == {ev.choices[i] : i \in 1..Len(ev.choices)}

\* A variant that spreads the running game instead of initialGameState.
FreshGame_KeepHistory(stats, scenarioId) ==
  [game EXCEPT !.stats = stats, !.scenarioId = scenarioId]

\* { ...initialGameState, stats, scenarioId, lastSeen: {} }
FreshGame(stats, scenarioId) ==
  [initialGameState EXCEPT !.stats = stats, !.scenarioId = scenarioId,
                           !.lastSeen = EmptyMap]

\* A variant that applies the effects and records nothing about the event.
CommitChoice_NoHistory(g, ev, choice) ==
  LET updated == [g EXCEPT !.stats = applyEffects(g.stats, choice.effects)]
  IN IF checkWin(updated)
     THEN [updated EXCEPT !.gameOver = TRUE, !.result = "win"]
     ELSE IF checkLose(updated.stats)
          THEN [updated EXCEPT !.gameOver = TRUE, !.result = "lose"]
          ELSE updated

\* A variant that records the event as the last one but not when it was seen.
CommitChoice_NoLastSeen(g, ev, choice) ==
  LET updated == [g EXCEPT !.stats = applyEffects(g.stats, choice.effects),
                           !.lastEventId = ev.id, !.lastTag = ev.tag]
  IN IF checkWin(updated)
     THEN [updated EXCEPT !.gameOver = TRUE, !.result = "win"]
     ELSE IF checkLose(updated.stats)
          THEN [updated EXCEPT !.gameOver = TRUE, !.result = "lose"]
          ELSE updated

\* The updater of handleConfirmSelection: the game after committing `choice`
\* of the presented event `ev`.
CommitChoice(g, ev, choice) ==
  LET newStats == applyEffects(g.stats, choice.effects)
      updated == [g EXCEPT !.stats = newStats, !.lastEventId = ev.id,
                           !.lastTag = ev.tag,
                           !.lastSeen = [k \in DOMAIN g.lastSeen \cup {ev.id} |->
                                           IF k = ev.id THEN g.stats.month
                                           ELSE g.lastSeen[k]]]
  IN IF checkWin(updated)
     THEN [updated EXCEPT !.gameOver = TRUE, !.result = "win"]
     ELSE IF checkLose(updated.stats)
          THEN [updated EXCEPT !.gameOver = TRUE, !.result = "lose"]
          ELSE updated

\* A variant that reports a loss when the goal is met and a loss holds too.
TickGame_LoseFirst(g, u1, u2) ==
  LET updated == [g EXCEPT !.stats = endOfPeriodTick(g.stats, u1, u2)]
      win == checkWin(updated)
      lose == checkLose(updated.stats)
  IN IF win \/ lose
     THEN [updated EXCEPT !.gameOver = TRUE,
                          !.result = IF lose THEN "lose" ELSE "win"]
     ELSE updated

\* The updater of handleNext, before the next event is picked.
TickGame(g, u1, u2) ==
  LET updated == [g EXCEPT !.stats = endOfPeriodTick(g.stats, u1, u2)]
      win == checkWin(updated)
      lose == checkLose(updated.stats)
  IN IF win \/ lose
     THEN [updated EXCEPT !.gameOver = TRUE,
                          !.result = IF win THEN "win" ELSE "lose"]
     ELSE updated

handleConfirmSelection ==
  /\ ~SurveyShown /\ ~PopupShown
  /\ choiceMade = Undefined
  /\ \E choice \in ChoicesOf(event) :
       /\ game' = CommitChoice(game, event, choice)
       /\ choiceMade' = choice.id
       /\ last' = [op |-> "handleConfirmSelection"]
  /\ storage' = saveGame(game')
  /\ UNCHANGED <<reloads, event, showSurvey, profile, loadingAi, aiError, customEvents,
                 inflight>>

NextUpTo(bound) ==
  /\ ~SurveyShown /\ ~PopupShown
  /\ choiceMade # Undefined
  /\ game.stats.month < bound
  /\ \E u1 \in Draws, u2 \in Draws, u \in Draws :
       /\ game' = TickGame(game, u1, u2)
       /\ event' = IF game'.gameOver THEN event
                   ELSE pickEvent(game', customEvents, u)
  /\ choiceMade' = Undefined
  /\ storage' = saveGame(game')
  /\ last' = [op |-> "handleNext"]
  /\ UNCHANGED <<reloads, showSurvey, profile, loadingAi, aiError, customEvents, inflight>>

handleNext == NextUpTo(MaxMonth)

handleNextPlay == NextUpTo(MaxPlayMonth)

\* The header's scenario <select>.
SelectScenario ==
  /\ ~PopupShown
  /\ \E sc \in Scenarios \ {game.scenarioId} :
       IF sc = "custom"
       THEN /\ game' = FreshGame(initialStatsForScenario("classic"), "custom")
            /\ showSurvey' = TRUE
            /\ UNCHANGED event
       ELSE /\ game' = FreshGame(initialStatsForScenario(sc), sc)
            /\ \E u \in Draws : event' = pickEvent(game', customEvents, u)
            /\ showSurvey' = FALSE
  /\ choiceMade' = Undefined
  /\ storage' = saveGame(game')
  /\ last' = [op |-> "SelectScenario"]
  /\ UNCHANGED <<reloads, profile, loadingAi, aiError, customEvents, inflight>>

\* A variant of New Game that also empties the custom catalog.
NewGame_ClearsCatalog ==
  /\ ~PopupShown
  /\ customEvents' = << >>
  /\ IF game.scenarioId = "custom"
     THEN /\ game' = FreshGame(initialStatsForScenario("classic"), "custom")
          /\ showSurvey' = TRUE
          /\ UNCHANGED event
     ELSE /\ game' = FreshGame(initialStatsForScenario(game.scenarioId),
                               game.scenarioId)
          /\ \E u \in Draws : event' = pickEvent(game', customEvents', u)
          /\ UNCHANGED showSurvey
  /\ choiceMade' = Undefined
  /\ storage' = saveGame(game')
  /\ last' = [op |-> "NewGame"]
  /\ UNCHANGED <<reloads, profile, loadingAi, aiError, inflight>>

\* The header's New Game button.
NewGame ==
  /\ ~PopupShown
  /\ IF game.scenarioId = "custom"
     THEN /\ game' = FreshGame(initialStatsForScenario("classic"), "custom")
          /\ showSurvey' = TRUE
          /\ UNCHANGED event
     ELSE /\ game' = FreshGame(initialStatsForScenario(game.scenarioId),
                               game.scenarioId)
          /\ \E u \in Draws : event' = pickEvent(game', customEvents, u)
          /\ UNCHANGED showSurvey
  /\ choiceMade' = Undefined
  /\ storage' = saveGame(game')
  /\ last' = [op |-> "NewGame"]
  /\ UNCHANGED <<reloads, profile, loadingAi, aiError, customEvents, inflight>>

\* The popup's Replay Scenario button.
Replay ==
  /\ PopupShown
  /\ game' = [FreshGame(initialStatsForScenario(game.scenarioId), game.scenarioId)
                EXCEPT !.goalDescription = game.goalDescription,
                       !.winCondition = game.winCondition]
  /\ \E u \in Draws : event' = pickEvent(game', customEvents, u)
  /\ choiceMade' = Undefined
  /\ storage' = saveGame(game')
  /\ last' = [op |-> "Replay"]
  /\ UNCHANGED <<reloads, showSurvey, profile, loadingAi, aiError, customEvents, inflight>>

\* The popup's Close button.
ClosePopup ==
  /\ PopupShown
  /\ game' = [game EXCEPT !.gameOver = FALSE, !.result = Undefined]
  /\ storage' = saveGame(game')
  /\ last' = [op |-> "ClosePopup"]
  /\ UNCHANGED <<reloads, event, choiceMade, showSurvey, profile, loadingAi, aiError,
                 customEvents, inflight>>

\* The survey's inputs (their onChange handlers), taken together.
EditProfile ==
  /\ SurveyShown /\ ~PopupShown
  /\ \E p \in Profiles \ {profile} : profile' = p
  /\ last' = [op |-> "EditProfile"]
  /\ UNCHANGED <<reloads, game, event, choiceMade, showSurvey, loadingAi, aiError,
                 customEvents, storage, inflight>>

\* The survey's Cancel button.
CancelSurvey ==
  /\ SurveyShown /\ ~PopupShown
  /\ showSurvey' = FALSE
  /\ last' = [op |-> "CancelSurvey"]
  /\ UNCHANGED <<reloads, game, event, choiceMade, profile, loadingAi, aiError,
                 customEvents, storage, inflight>>

\* The basic validation of onSubmit.
ProfileValid(p) ==
  p.income >= 0 /\ p.fixedExpenses >= 0 /\ p.savings >= 0 /\ p.debt >= 0

\* onSubmit up to its await: validation, then the request is sent.
SubmitSurvey ==
  /\ SurveyShown /\ ~PopupShown
  /\ ~loadingAi
  /\ IF ProfileValid(profile)
     THEN /\ loadingAi' = TRUE
          /\ aiError' = FALSE
          /\ inflight' = {profile}
     ELSE /\ loadingAi' = FALSE
          /\ aiError' = TRUE
          /\ UNCHANGED inflight
  /\ last' = [op |-> "SubmitSurvey"]
  /\ UNCHANGED <<reloads, game, event, choiceMade, showSurvey, profile, customEvents,
                 storage>>

\* Number(v) || fallback
OrElse(v, fallback) == IF v # 0 THEN v ELSE fallback

computedStats(p) ==
  LET base == initialStatsForScenario("classic")
  IN [base EXCEPT
        !.income = OrElse(p.income, base.income),
        !.fixedExpenses = OrElse(p.fixedExpenses, base.fixedExpenses),
        !.budget = OrElse(p.income, base.income)
                     - OrElse(p.fixedExpenses, base.fixedExpenses),
        !.savings = OrElse(p.savings, base.savings),
        !.debt = OrElse(p.debt, base.debt),
        !.impulse = IF p.risk = "high" THEN 60
                    ELSE IF p.risk = "low" THEN 25 ELSE 40]

\* onSubmit after its await, the response being OK with an events array.
ResponseOk ==
  /\ \E request \in inflight, data \in ResponseBodies, u \in Draws :
       /\ Spreadable(data)
       /\ customEvents' = setCustomEvents(data.events)
       /\ game' = [FreshGame(computedStats(request), "custom") EXCEPT
                     !.goalDescription = data.goal.description,
                     !.winCondition = data.goal.winCondition]
       /\ event' = pickEvent(game', customEvents', u)
  /\ choiceMade' = Undefined
  /\ showSurvey' = FALSE
  /\ loadingAi' = FALSE
  /\ inflight' = {}
  /\ storage' = saveGame(game')
  /\ last' = [op |-> "ResponseOk"]
  /\ UNCHANGED <<reloads, profile, aiError>>

\* onSubmit after its await, the response being OK without an iterable events
\* field: the spread in setCustomEvents throws before customEvents is
\* assigned, and the catch and finally blocks run.
ResponseNoEvents ==
  /\ \E request \in inflight, data \in ResponseBodies : ~Spreadable(data)
  /\ aiError' = TRUE
  /\ loadingAi' = FALSE
  /\ inflight' = {}
  /\ last' = [op |-> "ResponseNoEvents"]
  /\ UNCHANGED <<reloads, game, event, choiceMade, showSurvey, profile, customEvents,
                 storage>>

\* onSubmit after its await, when fetch or resp.json() rejects or the response
\* is not OK: the catch and finally blocks.
ResponseFail ==
  /\ inflight # {}
  /\ aiError' = TRUE
  /\ loadingAi' = FALSE
  /\ inflight' = {}
  /\ last' = [op |-> "ResponseFail"]
  /\ UNCHANGED <<reloads, game, event, choiceMade, showSurvey, profile, customEvents,
                 storage>>

\* A reload of the page: App mounts again on loadGame() ?? initialGameState,
\* with the module state new (the custom catalog empty) and an outstanding
\* request abandoned; the mount effects open the survey for a custom game
\* without catalog and save the game.
Reload ==
  /\ reloads < MaxReloads
  /\ reloads' = reloads + 1
  /\ \E saved \in (IF loadGame(storage) = {} THEN {initialGameState}
                     ELSE loadGame(storage)), u \in Draws :
       /\ game' = saved
       /\ event' = pickEvent(saved, << >>, u)
       /\ showSurvey' = (saved.scenarioId = "custom")
  /\ customEvents' = << >>
  /\ choiceMade' = Undefined
  /\ profile' = DefaultProfile
  /\ loadingAi' = FALSE
  /\ aiError' = FALSE
  /\ inflight' = {}
  /\ storage' = saveGame(game')
  /\ last' = [op |-> "Reload"]

\* A first visit: nothing stored, the classic game, its first event picked,
\* and the game saved by the effect that follows the first render.
Init ==
  /\ game = initialGameState
  /\ \E u \in Draws : event = pickEvent(initialGameState, << >>, u)
  /\ choiceMade = Undefined
  /\ showSurvey = FALSE
  /\ profile = DefaultProfile
  /\ loadingAi = FALSE
  /\ aiError = FALSE
  /\ customEvents = << >>
  /\ storage = saveGame(initialGameState)
  /\ inflight = {}
  /\ reloads = 0
  /\ last = [op |-> "mount"]

Next ==
  \/ handleConfirmSelection
  \/ handleNext
  \/ SelectScenario
  \/ NewGame
  \/ Replay
  \/ ClosePopup
  \/ EditProfile
  \/ CancelSurvey
  \/ SubmitSurvey
  \/ ResponseOk
  \/ ResponseNoEvents
  \/ ResponseFail

Spec == Init /\ [][Next]_vars

----------------------------------------------------------------------------
(* Play of a built-in scenario, from the fresh game its selection starts *)

BuiltIn == {"classic", "student", "startup"}

PlayInit ==
  /\ \E sc \in BuiltIn, u \in Draws :
       /\ game = FreshGame(initialStatsForScenario(sc), sc)
       /\ event = pickEvent(game, << >>, u)
  /\ choiceMade = Undefined
  /\ showSurvey = FALSE
  /\ profile = DefaultProfile
  /\ loadingAi = FALSE
  /\ aiError = FALSE
  /\ customEvents = << >>
  /\ storage = saveGame(game)
  /\ inflight = {}
  /\ reloads = 0
  /\ last = [op |-> "SelectScenario"]

PlayNext == handleConfirmSelection \/ handleNextPlay

SpecPlay == PlayInit /\ [][PlayNext]_vars

----------------------------------------------------------------------------
(* Play of a built-in scenario with reloads of the page *)

handleNextReload == NextUpTo(MaxReloadMonth)

ReloadNext == handleConfirmSelection \/ handleNextReload \/ Reload

SpecReload == PlayInit /\ [][ReloadNext]_vars

----------------------------------------------------------------------------
(* Play near the win and lose thresholds: a game in progress whose stress,
   debt and impulse are close to or past the thresholds of checkWin and
   checkLose (as after a long game, or after Close on the game-over popup),
   played on with the App's own handlers. *)

OutcomeStress == { 30, 94, 98 }
OutcomeDebt == { 0, 12000 }
OutcomeImpulse == { 8, 12 }

OutcomeInit ==
  /\ \E sc \in Scenarios, goal \in Goals, st \in OutcomeStress,
        d \in OutcomeDebt, i \in OutcomeImpulse, u \in Draws :
       /\ sc # "custom" => goal = NoGoal
       /\ customEvents = IF sc = "custom" THEN setCustomEvents(<< >>) ELSE << >>
       /\ game = [FreshGame([initialStatsForScenario(sc) EXCEPT
                               !.stress = st, !.debt = d, !.impulse = i], sc)
                    EXCEPT !.goalDescription = goal.description,
                           !.winCondition = goal.winCondition]
       /\ event = pickEvent(game, customEvents, u)
  /\ choiceMade = Undefined
  /\ showSurvey = FALSE
  /\ profile = DefaultProfile
  /\ loadingAi = FALSE
  /\ aiError = FALSE
  /\ storage = saveGame(game)
  /\ inflight = {}
  /\ reloads = 0
  /\ last = [op |-> "input"]

handleNextOutcome == NextUpTo(MaxOutcomeMonth)

OutcomeNext == handleConfirmSelection \/ handleNextOutcome \/ ClosePopup

SpecOutcome == OutcomeInit /\ [][OutcomeNext]_vars

----------------------------------------------------------------------------
(* Single calls of applyEffects and endOfPeriodTick on enumerated inputs *)

FlowInputs == { <<2500, 1800>>, <<900, 1500>>, <<900, 800>> }
SavingsInputs == { -1000, -100, 0, 200, 1000 }
DebtInputs == { -200, 0, 49, 50, 2000 }
ImpulseInputs == { -5, 0, 35, 100, 104 }
MoodInputs == { <<60, 40>>, <<105, -3>>, <<0, 100>>, <<100, 0>>, <<1, 98>> }
MonthInputs == { 1, 7 }

StatInputs ==
  { [month |-> m, budget |-> b, impulse |-> i, savings |-> s, debt |-> d,
     income |-> f[1], fixedExpenses |-> f[2], happiness |-> h[1],
     stress |-> h[2]] :
      m \in MonthInputs, b \in {0, 700}, i \in ImpulseInputs,
      s \in SavingsInputs, d \in DebtInputs, f \in FlowInputs,
      h \in MoodInputs }

EffectInputs ==
  { NoEffect,
    [savings |-> -500, debt |-> -500, stress |-> -2, happiness |-> 2],
    [income |-> 200, stress |-> 5],
    [fixedExpenses |-> -300, happiness |-> -5],
    [savings |-> -100, happiness |-> 10, impulse |-> 10],
    [budget |-> 50, impulse |-> 75],
    [budget |-> 50, income |-> -200, fixedExpenses |-> 400] }

\* The application's variables other than game and last, at rest.
AtRest ==
  /\ event = classicEvents[1]
  /\ choiceMade = Undefined
  /\ showSurvey = FALSE
  /\ profile = DefaultProfile
  /\ loadingAi = FALSE
  /\ aiError = FALSE
  /\ storage = {}
  /\ inflight = {}
  /\ reloads = 0

FnInit ==
  /\ \E s \in StatInputs : game = [initialGameState EXCEPT !.stats = s]
  /\ customEvents = << >>
  /\ AtRest
  /\ last = [op |-> "input"]

CallApplyEffects ==
  /\ last.op = "input"
  /\ \E e \in EffectInputs :
       last' = [op |-> "applyEffects", effects |-> e,
                stats |-> applyEffects(game.stats, e)]
  /\ UNCHANGED <<reloads, game, event, choiceMade, showSurvey, profile, loadingAi,
                 aiError, customEvents, storage, inflight>>

CallEndOfPeriodTick ==
  /\ last.op = "input"
  /\ \E u1 \in FnDraws, u2 \in FnDraws :
       /\ last' = [op |-> "endOfPeriodTick", u1 |-> u1, u2 |-> u2,
                   tick |-> TickTrace(game.stats, u1, u2),
                   stats |-> endOfPeriodTick(game.stats, u1, u2)]
       /\ game' = [game EXCEPT !.stats = prevAfterTick(game.stats, u1, u2)]
  /\ UNCHANGED <<reloads, event, choiceMade, showSurvey, profile, loadingAi,
                 aiError, customEvents, storage, inflight>>

FnNext == CallApplyEffects \/ CallEndOfPeriodTick

SpecFn == FnInit /\ [][FnNext]_vars

----------------------------------------------------------------------------
(* Single calls of setCustomEvents on enumerated events arrays *)

\* A generated event that reuses the other structural event's id.
genDupCut ==
  [id |-> "cut-expense-custom", tag |-> "lifestyle", weight |-> 0,
   choices |-> << Choice("cut", [fixedExpenses |-> -50]) >>]

GenEvents == { genSocial, genRisk, genDup, genDupCut }

RECURSIVE SeqsUpTo(_, _)
SeqsUpTo(S, n) ==
  IF n = 0 THEN { << >> }
  ELSE LET shorter == SeqsUpTo(S, n - 1)
       IN shorter \cup { Append(q, x) : q \in shorter, x \in S }

Decks == SeqsUpTo(GenEvents, MaxDeckLen)

CatalogInit ==
  /\ game = initialGameState
  /\ customEvents = << >>
  /\ AtRest
  /\ last = [op |-> "input"]

CallSetCustomEvents ==
  /\ \E events \in Decks :
       /\ customEvents' = setCustomEvents(events)
       /\ last' = [op |-> "setCustomEvents", events |-> events,
                   before |-> customEvents]
  /\ UNCHANGED <<reloads, game, event, choiceMade, showSurvey, profile, loadingAi,
                 aiError, storage, inflight>>

SpecCatalog == CatalogInit /\ [][CallSetCustomEvents]_vars

----------------------------------------------------------------------------
(* Calls of saveGame, loadGame and clearGame on the one storage key, in any
   order, with the key also written by something other than saveGame. *)

\* Games to save: fresh ones of every scenario, with and without a custom
\* goal, and those after a committed choice or at a game over.
StoreFresh ==
  { [FreshGame(initialStatsForScenario(sc), sc) EXCEPT
       !.goalDescription = goal.description,
       !.winCondition = goal.winCondition] :
      sc \in Scenarios, goal \in Goals }

StoreGames ==
  StoreFresh
    \cup { CommitChoice(g, classicEvents[1], c) :
             g \in StoreFresh, c \in ChoicesOf(classicEvents[1]) }
    \cup { [g EXCEPT !.gameOver = TRUE, !.result = r] :
             g \in StoreFresh, r \in {"win", "lose"} }

StoreInit ==
  /\ game = initialGameState
  /\ customEvents = << >>
  /\ AtRest
  /\ last = [op |-> "input"]

\* saveGame(g); setItem may throw (quota exceeded), which saveGame swallows,
\* leaving what was stored.
CallSaveGame ==
  /\ \E g \in StoreGames, ok \in BOOLEAN :
       /\ storage' = IF ok THEN saveGame(g) ELSE storage
       /\ last' = [op |-> "saveGame", g |-> g, ok |-> ok]
  /\ UNCHANGED <<reloads, game, event, choiceMade, showSurvey, profile, loadingAi,
                 aiError, customEvents, inflight>>

CallClearGame ==
  /\ storage' = clearGame(storage)
  /\ last' = [op |-> "clearGame"]
  /\ UNCHANGED <<reloads, game, event, choiceMade, showSurvey, profile, loadingAi,
                 aiError, customEvents, inflight>>

\* Something else writes text that is not JSON under the key.
WriteCorruptText ==
  /\ storage' = {CorruptText}
  /\ last' = [op |-> "corrupt"]
  /\ UNCHANGED <<reloads, game, event, choiceMade, showSurvey, profile, loadingAi,
                 aiError, customEvents, inflight>>

\* loadGame(): its result, and the call that last wrote the key before it.
CallLoadGame ==
  /\ last' = [op |-> "loadGame", result |-> loadGame(storage),
              after |-> IF last.op = "loadGame" THEN last.after ELSE last]
  /\ UNCHANGED <<reloads, game, event, choiceMade, showSurvey, profile, loadingAi,
                 aiError, customEvents, storage, inflight>>

StoreNext == CallSaveGame \/ CallClearGame \/ WriteCorruptText \/ CallLoadGame

SpecStore == StoreInit /\ [][StoreNext]_vars

----------------------------------------------------------------------------
(* Generation calls from the survey of a custom game, answered by responses
   of any shape: an events array of events, no events array, a failure, or
   an events array with an element that is not an event. *)

\* A null element of data.events (JSON null).
NullElement == [isNull |-> TRUE]

\* The events arrays with a null element that a response may carry.
BadDecks == { <<NullElement>>, <<genSocial, NullElement>> }

\* pack.filter((ev) => { if (ev.id === lastEventId) ... }) throws a TypeError
\* on a null element.
PickThrows(pack) == \E i \in 1..Len(pack) : pack[i] = NullElement

\* The custom scenario was selected: the survey is open over the classic
\* preset, with or without a deck installed earlier.
GenerateInit ==
  /\ game = FreshGame(initialStatsForScenario("classic"), "custom")
  /\ \E u \in Draws : event = pickEvent(initialGameState, << >>, u)
  /\ customEvents \in { << >>, setCustomEvents(<<genSocial, genRisk>>) }
  /\ profile \in Profiles
  /\ choiceMade = Undefined
  /\ showSurvey = TRUE
  /\ loadingAi = FALSE
  /\ aiError = FALSE
  /\ storage = saveGame(game)
  /\ inflight = {}
  /\ reloads = 0
  /\ last = [op |-> "SelectScenario"]

\* onSubmit after its await, the response being OK with an events array that
\* holds a null: setCustomEvents installs it, setGame(newState) is called,
\* and pickEvent(newState) throws; the catch and finally blocks run, and
\* setEvent, setChoiceMade and setShowSurvey are not reached.
ResponseBadElement ==
  /\ \E request \in inflight, events \in BadDecks, goal \in Goals :
       /\ PickThrows(setCustomEvents(events))
       /\ customEvents' = setCustomEvents(events)
       /\ game' = [FreshGame(computedStats(request), "custom") EXCEPT
                     !.goalDescription = goal.description,
                     !.winCondition = goal.winCondition]
  /\ aiError' = TRUE
  /\ loadingAi' = FALSE
  /\ inflight' = {}
  /\ storage' = saveGame(game')
  /\ last' = [op |-> "ResponseBadElement"]
  /\ UNCHANGED <<reloads, event, choiceMade, showSurvey, profile>>

GenerateNext ==
  \/ EditProfile
  \/ SubmitSurvey
  \/ CancelSurvey
  \/ SelectScenario
  \/ ResponseOk
  \/ ResponseNoEvents
  \/ ResponseFail
  \/ ResponseBadElement

SpecGenerate == GenerateInit /\ [][GenerateNext]_vars

----------------------------------------------------------------------------
(* Play of a game just started: a built-in scenario from its preset, or a
   custom game on a deck that a response installed. *)

\* A generated event with an empty choices array (choices: EventChoice[]).
genNoChoice ==
  [id |-> "gen-windfall", tag |-> "career", choices |-> << >>]

\* The events arrays of the responses.
DeckInputs == { << >>, <<genSocial, genRisk>>, <<genNoChoice>> }

DeckInit ==
  /\ \E sc \in Scenarios, deck \in DeckInputs, u \in Draws :
       /\ sc # "custom" => deck = << >>
       /\ customEvents = IF sc = "custom" THEN setCustomEvents(deck) ELSE << >>
       /\ game = FreshGame(IF sc = "custom" THEN computedStats(DefaultProfile)
                           ELSE initialStatsForScenario(sc), sc)
       /\ event = pickEvent(game, customEvents, u)
  /\ choiceMade = Undefined
  /\ showSurvey = FALSE
  /\ profile = DefaultProfile
  /\ loadingAi = FALSE
  /\ aiError = FALSE
  /\ storage = saveGame(game)
  /\ inflight = {}
  /\ reloads = 0
  /\ last = [op |-> "start"]

handleNextDeck == NextUpTo(MaxDeckMonth)

DeckNext == handleConfirmSelection \/ handleNextDeck

SpecDeck == DeckInit /\ [][DeckNext]_vars

----------------------------------------------------------------------------
(* Single calls of pickEvent on enumerated game states *)

IdsOf(pack) == { pack[i].id : i \in 1..Len(pack) }

\* The custom catalogs pickEvent may find: none installed yet, or installed
\* from an events array.
CatalogInputs ==
  { << >>, setCustomEvents(<< >>), setCustomEvents(<<genSocial, genRisk>>),
    setCustomEvents(<<genDup, genDupCut>>) }

\* "arcade" stands for a scenario id that names no catalog.
ScenarioInputs == Scenarios \cup {"arcade"}

\* (savings, debt): with and without the catalogs' conditions holding.
BalanceInputs == { <<1500, 500>>, <<50, 0>> }

NowInputs == { 1, 3, 5, 9 }

LastTagInputs == { Undefined, "finance" }

\* lastEventId: unset, or the first or the last event of the catalog.
LastEventInputs(pack) == { Undefined, pack[1].id, pack[Len(pack)].id }

\* lastSeen: any set of the catalog's events, each seen in month 1.
LastSeenInputs(pack) == { [id \in S |-> 1] : S \in SUBSET IdsOf(pack) }

PickInit ==
  /\ \E sc \in ScenarioInputs, custom \in CatalogInputs :
       /\ sc # "custom" => custom = << >>
       /\ customEvents = custom
       /\ \E now \in NowInputs, b \in BalanceInputs, tag \in LastTagInputs,
             id \in LastEventInputs(ResolvePack(sc, custom)),
             seen \in LastSeenInputs(ResolvePack(sc, custom)) :
            game = [initialGameState EXCEPT
                      !.scenarioId = sc,
                      !.stats = [baseStats EXCEPT !.month = now,
                                                  !.savings = b[1],
                                                  !.debt = b[2]],
                      !.lastTag = tag, !.lastEventId = id, !.lastSeen = seen]
  /\ AtRest
  /\ last = [op |-> "input"]

CallPickEvent ==
  /\ last.op = "input"
  /\ \E u \in FnDraws :
       last' = [op |-> "pickEvent", u |-> u,
                picked |-> pickEvent(game, customEvents, u)]
  /\ UNCHANGED <<reloads, game, event, choiceMade, showSurvey, profile, loadingAi,
                 aiError, customEvents, storage, inflight>>

SpecPick == PickInit /\ [][CallPickEvent]_vars

----------------------------------------------------------------------------
(* Properties of applyEffects and endOfPeriodTick, under SpecFn *)

\* C1: the stat vector returned by applyEffects (for every delta, one with a
\* budget key included) and the one returned by endOfPeriodTick have
\* budget = income - fixedExpenses, taken from that same returned vector.
BudgetDerived ==
  last.op \in {"applyEffects", "endOfPeriodTick"} =>
    last.stats.budget = last.stats.income - last.stats.fixedExpenses

\* applyEffects was given a delta with a budget key that also moves income and
\* fixedExpenses, on a vector whose budget was not the derived one.
BudgetDerivedWitness ==
  /\ last.op = "applyEffects"
  /\ {"budget", "income", "fixedExpenses"} \subseteq DOMAIN last.effects
  /\ game.stats.budget # game.stats.income - game.stats.fixedExpenses
  /\ last.stats.income # game.stats.income

\* C7: from savings >= 0 the settlement step of endOfPeriodTick leaves
\* savings >= 0, whatever the impulse draw: a surplus is added, a deficit not
\* larger than savings is subtracted, a larger deficit sets savings to 0.
SettlementNonNegative ==
  (last.op = "endOfPeriodTick" /\ game.stats.savings >= 0) =>
    /\ last.tick.settled.savings >= 0
    /\ last.tick.net >= 0 =>
         last.tick.settled.savings = game.stats.savings + last.tick.net
    /\ (last.tick.net < 0 /\ -last.tick.net <= game.stats.savings) =>
         last.tick.settled.savings = game.stats.savings + last.tick.net
    /\ (last.tick.net < 0 /\ -last.tick.net > game.stats.savings) =>
         last.tick.settled.savings = 0

\* A tick whose impulse spend turned a deficit larger than the (positive)
\* savings: savings were set to 0.
SettlementNonNegativeWitness ==
  /\ last.op = "endOfPeriodTick"
  /\ game.stats.savings > 0
  /\ last.tick.variableSpend > 0
  /\ -last.tick.net > game.stats.savings
  /\ last.tick.settled.savings = 0

\* C8: endOfPeriodTick returns happiness, stress and impulse within [0,100]
\* for every input, inputs outside [0,100] included.
MoodWithinRange ==
  last.op = "endOfPeriodTick" =>
    /\ last.stats.happiness \in 0..100
    /\ last.stats.stress \in 0..100
    /\ last.stats.impulse \in 0..100

\* A tick of a vector with happiness and impulse above 100 and stress below 0.
MoodWithinRangeWitness ==
  /\ last.op = "endOfPeriodTick"
  /\ game.stats.happiness > 100
  /\ game.stats.stress < 0
  /\ game.stats.impulse > 100

----------------------------------------------------------------------------
(* Properties of pickEvent, under SpecPick *)

\* The catalog pickEvent draws from in the current state.
PickPack == ResolvePack(game.scenarioId, customEvents)

\* ev is on cooldown in the current state: seen less than ev.cooldown months
\* ago (an event without cooldown, or never seen, is not).
CoolingDown(ev) ==
  /\ "cooldown" \in DOMAIN ev
  /\ ev.id \in DOMAIN game.lastSeen
  /\ game.stats.month - game.lastSeen[ev.id] < ev.cooldown

\* ev's condition is absent or true of the current stats.
ConditionHolds(ev) ==
  "condition" \in DOMAIN ev => EvalCondition(ev.condition, game.stats)

\* ev passes all the eligibility filters in the current state.
PassesFilters(ev) ==
  /\ ev.id # game.lastEventId
  /\ ConditionHolds(ev)
  /\ ~CoolingDown(ev)

SomePassesFilters == \E i \in 1..Len(PickPack) : PassesFilters(PickPack[i])

\* C2, as stated: pickEvent never returns an event that is on cooldown.
NeverOnCooldown ==
  last.op = "pickEvent" => ~CoolingDown(last.picked)

\* C2, amended: when at least one event of the catalog passes all the filters,
\* pickEvent does not return an event that is on cooldown.
NeverOnCooldownAmongCandidates ==
  (last.op = "pickEvent" /\ SomePassesFilters) => ~CoolingDown(last.picked)

\* A pick from a catalog with events on cooldown and events passing the filters.
NeverOnCooldownAmongCandidatesWitness ==
  /\ last.op = "pickEvent"
  /\ SomePassesFilters
  /\ \E i \in 1..Len(PickPack) :
       /\ CoolingDown(PickPack[i])
       /\ PickPack[i].id # game.lastEventId
       /\ ConditionHolds(PickPack[i])

PickPassesFilters ==
  (last.op = "pickEvent" /\ SomePassesFilters) =>
    /\ PassesFilters(last.picked)
    /\ last.picked.id # game.lastEventId

\* A pick where the last event is in the catalog, off cooldown with its
\* condition holding, and another event passes the filters.
PickPassesFiltersWitness ==
  /\ last.op = "pickEvent"
  /\ SomePassesFilters
  /\ \E i \in 1..Len(PickPack) :
       /\ PickPack[i].id = game.lastEventId
       /\ ConditionHolds(PickPack[i])
       /\ ~CoolingDown(PickPack[i])

----------------------------------------------------------------------------
(* Properties of setCustomEvents, under SpecCatalog *)

\* How many events of the custom catalog carry the id.
CountId(id) == Cardinality({ i \in 1..Len(customEvents) : customEvents[i].id = id })

\* C10: after setCustomEvents(events), for every events list (one that already
\* has events with the ids pay-debt-custom or cut-expense-custom included), the
\* custom catalog holds exactly one event with id pay-debt-custom and exactly
\* one with id cut-expense-custom.
ExactlyOneOfEachStructural ==
  last.op = "setCustomEvents" =>
    /\ CountId("pay-debt-custom") = 1
    /\ CountId("cut-expense-custom") = 1

----------------------------------------------------------------------------
(* Properties of play in a built-in scenario, under SpecPlay *)

\* C5, as stated: in a game of a built-in scenario the event presented after
\* a tick is never the event whose choice was committed in the month before
\* (the event on display when Next was pressed).
NoImmediateRepeat ==
  [][(last'.op = "handleNext" /\ ~game'.gameOver) => event'.id # event.id]_vars

\* Some event of the scenario's catalog passes all the filters of pickEvent in
\* game g: not the last event, condition absent or true, not on cooldown.
CandidateExists(g) ==
  \E i \in 1..Len(scenarioEvents(g.scenarioId)) :
    LET ev == scenarioEvents(g.scenarioId)[i]
    IN /\ ev.id # g.lastEventId
       /\ "condition" \in DOMAIN ev => EvalCondition(ev.condition, g.stats)
       /\ ~(/\ "cooldown" \in DOMAIN ev
            /\ ev.id \in DOMAIN g.lastSeen
            /\ g.stats.month - g.lastSeen[ev.id] < ev.cooldown)

\* C5, amended: in a game of a built-in scenario, whenever at least one event
\* of the catalog passes all the filters after the tick, the event presented
\* after the tick is not the event committed in the month before.
NoImmediateRepeatAmongCandidates ==
  [][(last'.op = "handleNext" /\ ~game'.gameOver /\ CandidateExists(game'))
       => event'.id # event.id]_vars

\* After four months of play a tick has presented an event other than the one
\* just committed, drawn from a catalog with candidates left.
NoImmediateRepeatAmongCandidatesWitness ==
  /\ last.op = "handleNext"
  /\ ~game.gameOver
  /\ game.stats.month = 5
  /\ CandidateExists(game)
  /\ game.lastEventId # Undefined
  /\ event.id # game.lastEventId

\* C6: for every stat vector reached in play, one whose savings a committed
\* effect pushed below 0 included, the vector endOfPeriodTick returns has
\* savings >= 0.
TickSavingsNonNegative ==
  last.op = "handleNext" => game.stats.savings >= 0

----------------------------------------------------------------------------
(* Properties of the application, under Spec *)

\* The steps of tick and commit: a tick adds exactly 1 to month, committing a
\* choice leaves month unchanged.
TickAndCommitMonth ==
  /\ last'.op = "handleNext" => game'.stats.month = game.stats.month + 1
  /\ last'.op = "handleConfirmSelection" => game'.stats.month = game.stats.month

----------------------------------------------------------------------------
(* Further properties of setCustomEvents, under SpecCatalog *)

\* C11: setCustomEvents replaces the whole custom catalog: after
\* setCustomEvents(A) and then setCustomEvents(B) the catalog is the events of
\* B in order followed by the debt-repayment and the expense-reduction
\* structural events, with nothing of A remaining.
CatalogReplaced ==
  last.op = "setCustomEvents" =>
    /\ Len(customEvents) = Len(last.events) + 2
    /\ \A i \in 1..Len(last.events) : customEvents[i] = last.events[i]
    /\ customEvents[Len(last.events) + 1].id = "pay-debt-custom"
    /\ customEvents[Len(last.events) + 2].id = "cut-expense-custom"

\* A second call, made on a catalog installed from a non-empty list A, with a
\* non-empty list B that has none of A's generated events.
CatalogReplacedWitness ==
  /\ last.op = "setCustomEvents"
  /\ Len(last.before) > 2
  /\ Len(last.events) > 0
  /\ \A i \in 1..Len(last.events) : last.events[i] # last.before[1]
  /\ \A i \in 1..Len(customEvents) : customEvents[i] # last.before[1]

----------------------------------------------------------------------------
(* Properties of the generation response, under Spec *)

\* C12: a response whose events field is missing or not an array is treated
\* as an empty list: the custom catalog becomes exactly the two structural
\* events, no error is raised and the custom game starts.
MissingEventsTreatedAsEmpty ==
  last.op = "ResponseNoEvents" =>
    /\ Len(customEvents) = 2
    /\ customEvents[1].id = "pay-debt-custom"
    /\ customEvents[2].id = "cut-expense-custom"
    /\ ~aiError
    /\ ~showSurvey
    /\ game.scenarioId = "custom"

----------------------------------------------------------------------------
(* Properties of the turn loop, under Spec *)

\* C13: committing a choice for the presented event E in month m sets
\* lastSeen[E.id] = m, lastEventId = E.id and lastTag = E.tag; offering an
\* event changes none of lastSeen, lastEventId, lastTag or the stat vector:
\* after Next they are as the tick left them, and after the pick that starts
\* a game nothing is on record.
CommitRecordsOfferDoesNot ==
  [][/\ last'.op = "handleConfirmSelection" =>
          /\ game'.lastEventId = event.id
          /\ game'.lastTag = event.tag
          /\ DOMAIN game'.lastSeen = DOMAIN game.lastSeen \cup {event.id}
          /\ game'.lastSeen[event.id] = game.stats.month
          /\ \A id \in DOMAIN game.lastSeen \ {event.id} :
               game'.lastSeen[id] = game.lastSeen[id]
     /\ last'.op = "handleNext" =>
          /\ game'.lastSeen = game.lastSeen
          /\ game'.lastEventId = game.lastEventId
          /\ game'.lastTag = game.lastTag
          /\ \E u1 \in Draws, u2 \in Draws :
               game'.stats = TickTrace(game.stats, u1, u2).stats
     /\ last'.op \in {"NewGame", "Replay", "SelectScenario", "ResponseOk"} =>
          /\ DOMAIN game'.lastSeen = {}
          /\ game'.lastEventId = Undefined
          /\ game'.lastTag = Undefined
          /\ game'.stats.month = 1]_vars

\* A choice was committed in month 2 for an event other than the one of month
\* 1: both are on record, each with its month.
CommitRecordsOfferDoesNotWitness ==
  /\ last.op = "handleConfirmSelection"
  /\ game.stats.month = 2
  /\ game.lastEventId = event.id
  /\ game.lastSeen[event.id] = 2
  /\ \E id \in DOMAIN game.lastSeen : game.lastSeen[id] = 1

----------------------------------------------------------------------------
(* Worked months of endOfPeriodTick, under SpecFn *)

\* Math.round(num / den) for integers num and den > 0: the nearest integer,
\* halves going up.
Rounded(num, den) == (2 * num + den) \div (2 * den)

\* n held within [0, 100].
Within0To100(n) == IF n < 0 THEN 0 ELSE IF n > 100 THEN 100 ELSE n

\* The input of the last call is a month without impulse spend whose net
\* income - fixedExpenses is not negative.
SurplusMonth ==
  /\ last.op = "endOfPeriodTick"
  /\ last.tick.variableSpend = 0
  /\ game.stats.income - game.stats.fixedExpenses >= 0

\* What a surplus month does to debt, mood, impulse and month.
SurplusMonthRest ==
  LET s == game.stats
      r == last.stats
  IN /\ r.debt = s.debt + (IF s.debt > 0 THEN Rounded(s.debt, 100) ELSE 0)
     /\ r.happiness = Within0To100(s.happiness + 1)
     /\ r.stress = Within0To100(s.stress - 1)
     /\ r.impulse = Within0To100(s.impulse - 1)
     /\ r.month = s.month + 1

DeficitMonth ==
  /\ last.op = "endOfPeriodTick"
  /\ game.stats.income - game.stats.fixedExpenses - last.tick.variableSpend < 0

\* deficit = -net of the last call.
Deficit ==
  game.stats.fixedExpenses + last.tick.variableSpend - game.stats.income

\* The debt after a settlement that borrows the shortfall.
Borrowed == game.stats.debt + (Deficit - game.stats.savings)

\* The deficit that savings cover, and the example of the deficit month.
DeficitMonthCovered ==
  /\ (DeficitMonth /\ game.stats.savings >= Deficit) =>
       /\ last.tick.settled.savings = game.stats.savings - Deficit
       /\ last.tick.settled.debt = game.stats.debt
  /\ (DeficitMonth /\ game.stats.savings < Deficit) =>
       /\ last.tick.settled.savings = 0
       /\ last.stats.savings = 0
       /\ last.tick.settled.debt = Borrowed
  /\ ( /\ last.op = "endOfPeriodTick"
       /\ game.stats.income = 900 /\ game.stats.fixedExpenses = 1500
       /\ game.stats.savings = 200 /\ game.stats.debt = 0
       /\ game.stats.impulse = 0 ) =>
       /\ last.stats.savings = 0
       /\ last.stats.debt = 404

----------------------------------------------------------------------------
(* Catalog resolution of pickEvent, under SpecPick *)

\* The events of a catalog.
EventsOf(pack) == { pack[i] : i \in 1..Len(pack) }

----------------------------------------------------------------------------
(* The frame of applyEffects, under SpecFn *)

\* The delta the last call's effects carry for stat k (0 when k is not named).
DeltaOf(k) == IF k \in DOMAIN last.effects THEN last.effects[k] ELSE 0

\* C17, as stated: in the vector applyEffects(s, e) returns every stat named in
\* e is s's value plus the delta exactly, with no clamping, and every stat not
\* named in e other than budget is unchanged.
EffectsAddedExactly ==
  last.op = "applyEffects" =>
    /\ \A k \in DOMAIN last.effects : last.stats[k] = game.stats[k] + last.effects[k]
    /\ \A k \in (DOMAIN game.stats \ DOMAIN last.effects) \ {"budget"} :
         last.stats[k] = game.stats[k]

\* C17, amended: in the vector applyEffects(s, e) returns every stat other
\* than budget that e names is s's value plus the delta exactly, with no
\* clamping, and every stat other than budget that e does not name is
\* unchanged (month included); budget is income - fixedExpenses of the
\* returned vector whether or not e names it.
EffectsAddedExactlyButBudget ==
  last.op = "applyEffects" =>
    /\ DOMAIN last.stats = DOMAIN game.stats
    /\ \A k \in DOMAIN game.stats \ {"budget"} :
         last.stats[k] = game.stats[k] + DeltaOf(k)

\* A call whose delta names budget and takes impulse from within range to
\* above 100.
EffectsAddedExactlyButBudgetWitness ==
  /\ last.op = "applyEffects"
  /\ "budget" \in DOMAIN last.effects
  /\ game.stats.impulse <= 100
  /\ last.stats.impulse > 100
  /\ last.stats.budget # game.stats.budget + last.effects.budget

----------------------------------------------------------------------------
(* The start of a custom game, under Spec *)

\* C18: after a successful profile submission the custom game starts with
\* income, fixedExpenses, savings and debt equal to the submitted values, for
\* every non-negative submitted value, 0 included, with impulse 60, 25 or 40
\* for risk high, low or otherwise, month 1, and happiness and stress of the
\* classic preset.
CustomGameStartsFromProfile ==
  [][last'.op = "ResponseOk" =>
       \A submitted \in inflight :
         /\ game'.stats.income = submitted.income
         /\ game'.stats.fixedExpenses = submitted.fixedExpenses
         /\ game'.stats.savings = submitted.savings
         /\ game'.stats.debt = submitted.debt
         /\ game'.stats.impulse = (IF submitted.risk = "high" THEN 60
                                   ELSE IF submitted.risk = "low" THEN 25 ELSE 40)
         /\ game'.stats.month = 1
         /\ game'.stats.happiness = initialStatsForScenario("classic").happiness
         /\ game'.stats.stress = initialStatsForScenario("classic").stress]_vars

----------------------------------------------------------------------------
(* One choice per turn, under SpecReload *)

\* A choice was already committed in the current month: some event is on
\* record in lastSeen with the current month.
CommittedThisMonth ==
  \E id \in DOMAIN game.lastSeen : game.lastSeen[id] = game.stats.month

\* C19: exactly one choice is committed per turn, over any sequence of
\* commits, Next, closing the game-over popup and reloading the page: a choice
\* is committed only when none was committed since the last tick, and Next is
\* possible only after a choice was committed.
OneChoicePerTurn ==
  [][/\ last'.op = "handleConfirmSelection" => ~CommittedThisMonth
     /\ last'.op = "handleNext" => CommittedThisMonth]_vars


----------------------------------------------------------------------------
(* C20: win and lose are evaluated after every committed choice and every
   tick. *)

LoseHolds(stats) == stats.debt > 4 * stats.income \/ stats.stress > 95

\* C20: after each committed choice and each tick, gameOver is set exactly
\* when the goal is met (checkWin) or debt > 4*income or stress > 95 holds of
\* the resulting state; the result is a win whenever the goal is met, also
\* when a loss holds too, and a loss otherwise; and a tick that ends the
\* game leaves the presented event as it was.
OutcomeEvaluatedAfterPlay ==
  [][last'.op \in {"handleConfirmSelection", "handleNext"} =>
       /\ game'.gameOver = (checkWin(game') \/ LoseHolds(game'.stats))
       /\ checkWin(game') => game'.result = "win"
       /\ (LoseHolds(game'.stats) /\ ~checkWin(game')) => game'.result = "lose"
       /\ (last'.op = "handleNext" /\ game'.gameOver) => event' = event]_vars

\* A tick has ended the game with the goal met and a loss holding at once.
OutcomeEvaluatedAfterPlayWitness ==
  /\ last.op = "handleNext"
  /\ game.gameOver
  /\ game.result = "win"
  /\ checkWin(game)
  /\ LoseHolds(game.stats)

----------------------------------------------------------------------------
(* C21: loadGame returns null or what was saved. *)

----------------------------------------------------------------------------
(* C22: the total weight handed to weightedRandom. *)

\* 100 times the sampling weight of ev in the current state.
SamplingWeight(ev) ==
  (IF "weight" \in DOMAIN ev THEN ev.weight ELSE 1)
    * (IF game.lastTag # Undefined /\ ev.tag = game.lastTag THEN 35 ELSE 100)

\* 100 times the sum of the sampling weights of the events, from the i-th
\* on, that pass the filters.
RECURSIVE CandidateWeightFrom(_)
CandidateWeightFrom(i) ==
  IF i > Len(PickPack) THEN 0
  ELSE (IF PassesFilters(PickPack[i]) THEN SamplingWeight(PickPack[i]) ELSE 0)
         + CandidateWeightFrom(i + 1)

\* C22: whenever pickEvent reaches weightedRandom (some event passes the
\* filters), the sum of the candidates' weights is > 0, for every catalog,
\* generated decks with declared weights included.
TotalWeightPositive ==
  (last.op = "pickEvent" /\ SomePassesFilters) => CandidateWeightFrom(1) > 0

----------------------------------------------------------------------------
(* C23: the fallback when no event passes the filters. *)

\* Draws of Math.random(), in thousandths, that reach every index of an array
\* of up to 20 elements through Math.floor(Math.random() * length).
SpreadDraws == { 50 * k : k \in 0..19 }

\* C23: pickEvent returns an event of the resolved catalog whose condition is
\* absent or true of the current stats; and when no event passes the filters,
\* every event of the catalog whose condition is absent or true is returned
\* for some draw, whatever its cooldown and whether or not it is the last
\* event.
PickIsConditionEligible ==
  last.op = "pickEvent" =>
    /\ \E i \in 1..Len(PickPack) :
         last.picked = PickPack[i] /\ ConditionHolds(PickPack[i])
    /\ ~SomePassesFilters =>
         \A i \in 1..Len(PickPack) :
           ConditionHolds(PickPack[i]) =>
             \E u \in SpreadDraws :
               pickEvent(game, customEvents, u) = PickPack[i]

\* With no event passing the filters, the last event was returned again
\* while another event with a true condition was on cooldown.
PickIsConditionEligibleWitness ==
  /\ last.op = "pickEvent"
  /\ ~SomePassesFilters
  /\ last.picked.id = game.lastEventId
  /\ \E i \in 1..Len(PickPack) :
       /\ PickPack[i].id # game.lastEventId
       /\ ConditionHolds(PickPack[i])
       /\ CoolingDown(PickPack[i])

----------------------------------------------------------------------------
(* C24: weighted sampling among the candidates. *)

\* 100 times the cumulative sampling weight of the candidates up to the i-th
\* event of the catalog.
CumulativeWeight(i) == CandidateWeightFrom(1) - CandidateWeightFrom(i + 1)

\* The i-th event of the catalog is the first candidate whose cumulative
\* weight exceeds the draw r = total * u / 1000.
FirstExceeding(i, u) ==
  /\ PassesFilters(PickPack[i])
  /\ 1000 * CumulativeWeight(i) > u * CandidateWeightFrom(1)
  /\ \A j \in 1..(i - 1) :
       PassesFilters(PickPack[j]) =>
         1000 * CumulativeWeight(j) <= u * CandidateWeightFrom(1)

\* Draws of Math.random(), in thousandths, one in every hundredth of [0, 1).
FineDraws == { 10 * k : k \in 0..99 }

\* C24: with weights the declared weight (default 1), times 0.35 exactly when
\* lastTag is set and equals the candidate's tag, and a positive total,
\* pickEvent returns the first candidate in catalog order whose cumulative
\* weight exceeds the draw; and a candidate of lastTag's tag with a positive
\* weight is returned for some draw.
WeightedSamplingInCatalogOrder ==
  (last.op = "pickEvent" /\ SomePassesFilters /\ CandidateWeightFrom(1) > 0) =>
    /\ \E i \in 1..Len(PickPack) :
         last.picked = PickPack[i] /\ FirstExceeding(i, last.u)
    /\ \A i \in 1..Len(PickPack) :
         ( /\ PassesFilters(PickPack[i])
           /\ game.lastTag # Undefined
           /\ PickPack[i].tag = game.lastTag
           /\ SamplingWeight(PickPack[i]) > 0 ) =>
           \E u \in FineDraws : pickEvent(game, customEvents, u) = PickPack[i]

\* A candidate of the last tag was returned although a candidate of another
\* tag stood before it in the catalog.
WeightedSamplingInCatalogOrderWitness ==
  /\ last.op = "pickEvent"
  /\ CandidateWeightFrom(1) > 0
  /\ game.lastTag # Undefined
  /\ last.picked.tag = game.lastTag
  /\ PassesFilters(last.picked)
  /\ \E i \in 1..Len(PickPack) :
       /\ PassesFilters(PickPack[i])
       /\ PickPack[i].tag # game.lastTag
       /\ \E j \in (i + 1)..Len(PickPack) : PickPack[j] = last.picked

----------------------------------------------------------------------------
(* C25: impulse spending in a tick. *)

\* The first draw u1/1000 is below min(0.4, impulse/100 * 0.4).
BelowImpulseProbability ==
  /\ last.u1 < 400
  /\ last.u1 * 100 < game.stats.impulse * 400

\* C25: impulse spending is triggered exactly when the first draw is below
\* min(0.4, impulse/100 * 0.4), so never when impulse <= 0; when triggered
\* the amount is round(10 + r * impulse * 2) for the second draw r, an
\* integer from 10 to 10 + 2*impulse; otherwise the amount is 0 and net is
\* income - fixedExpenses.
ImpulseSpendAsDrawn ==
  last.op = "endOfPeriodTick" =>
    /\ game.stats.impulse <= 0 => ~BelowImpulseProbability
    /\ BelowImpulseProbability =>
         /\ last.tick.variableSpend
              = Rounded(10 * 1000 + last.u2 * game.stats.impulse * 2, 1000)
         /\ last.tick.variableSpend >= 10
         /\ last.tick.variableSpend <= 10 + 2 * game.stats.impulse
         /\ last.tick.net = game.stats.income - game.stats.fixedExpenses
                              - last.tick.variableSpend
    /\ ~BelowImpulseProbability =>
         /\ last.tick.variableSpend = 0
         /\ last.tick.net = game.stats.income - game.stats.fixedExpenses

\* An impulse spend of the highest amount, 10 + 2*impulse, was drawn.
ImpulseSpendAsDrawnWitness ==
  /\ last.op = "endOfPeriodTick"
  /\ BelowImpulseProbability
  /\ game.stats.impulse > 0
  /\ last.tick.variableSpend = 10 + 2 * game.stats.impulse

----------------------------------------------------------------------------
(* C26: interest on the balances after settlement. *)

\* net of the tick, from the amount spent on impulse.
NetOfTick ==
  game.stats.income - game.stats.fixedExpenses - last.tick.variableSpend

\* The balances after settlement and before interest.
SavingsAfterSettlement ==
  IF NetOfTick >= 0 \/ game.stats.savings >= -NetOfTick
  THEN game.stats.savings + NetOfTick
  ELSE 0

DebtAfterSettlement ==
  IF NetOfTick >= 0 \/ game.stats.savings >= -NetOfTick
  THEN game.stats.debt
  ELSE game.stats.debt + (-NetOfTick - game.stats.savings)

\* C26: interest is computed on the balances after settlement: the debt
\* grows by round(debt * 0.01) exactly when that debt is > 0 and the savings
\* by round(savings * 0.002) exactly when those savings are > 0, rounded to
\* the nearest integer with halves up (debt 50 accrues 1, debt 49 accrues 0);
\* a balance that is zero or negative accrues nothing.
InterestAfterSettlement ==
  last.op = "endOfPeriodTick" =>
    /\ last.stats.debt - DebtAfterSettlement
         = IF DebtAfterSettlement > 0
           THEN Rounded(DebtAfterSettlement, 100) ELSE 0
    /\ last.stats.savings - SavingsAfterSettlement
         = IF SavingsAfterSettlement > 0
           THEN Rounded(SavingsAfterSettlement * 2, 1000) ELSE 0
    /\ DebtAfterSettlement = 50 => last.stats.debt = 51
    /\ DebtAfterSettlement = 49 => last.stats.debt = 49

\* A debt of 50 after settlement accrued 1, next to savings that accrued too.
InterestAfterSettlementWitness ==
  /\ last.op = "endOfPeriodTick"
  /\ DebtAfterSettlement = 50
  /\ last.stats.debt = 51
  /\ SavingsAfterSettlement > 0
  /\ last.stats.savings > SavingsAfterSettlement

----------------------------------------------------------------------------
(* C27: mood drift and impulse decay. *)

\* C27: with net = income - fixedExpenses - the impulse spend of the same
\* tick, happiness becomes clamp(happiness + 1, 0, 100) and stress
\* clamp(stress - 1, 0, 100) when net >= 0, and clamp(happiness - 2, 0, 100)
\* and clamp(stress + 3, 0, 100) when net < 0; impulse becomes
\* clamp(impulse - 1, 0, 100) with or without an impulse spend.
MoodDriftAndImpulseDecay ==
  last.op = "endOfPeriodTick" =>
    /\ NetOfTick >= 0 =>
         /\ last.stats.happiness = Within0To100(game.stats.happiness + 1)
         /\ last.stats.stress = Within0To100(game.stats.stress - 1)
    /\ NetOfTick < 0 =>
         /\ last.stats.happiness = Within0To100(game.stats.happiness - 2)
         /\ last.stats.stress = Within0To100(game.stats.stress + 3)
    /\ last.stats.impulse = Within0To100(game.stats.impulse - 1)

\* An impulse spend turned a surplus of income over fixed expenses into a
\* deficit: happiness fell by 2, stress rose by 3 and impulse fell by 1.
MoodDriftAndImpulseDecayWitness ==
  /\ last.op = "endOfPeriodTick"
  /\ game.stats.income - game.stats.fixedExpenses >= 0
  /\ last.tick.variableSpend > 0
  /\ NetOfTick < 0
  /\ last.stats.happiness = game.stats.happiness - 2
  /\ last.stats.stress = game.stats.stress + 3
  /\ last.stats.impulse = game.stats.impulse - 1

----------------------------------------------------------------------------
(* C28: what a tick leaves alone. *)

\* C28: endOfPeriodTick returns income and fixedExpenses as they were and
\* leaves the vector it was given as it was; the budget it returns is the
\* given income - fixedExpenses, whatever the impulse spend and the deficit
\* of that tick.
TickLeavesFlowsAlone ==
  [][last'.op = "endOfPeriodTick" =>
       /\ game'.stats = game.stats
       /\ last'.stats.income = game.stats.income
       /\ last'.stats.fixedExpenses = game.stats.fixedExpenses
       /\ last'.stats.budget = game.stats.income - game.stats.fixedExpenses]_vars

\* A tick with an impulse spend and a deficit covered by new debt returned a
\* positive budget.
TickLeavesFlowsAloneWitness ==
  /\ last.op = "endOfPeriodTick"
  /\ last.tick.variableSpend > 0
  /\ NetOfTick < 0
  /\ game.stats.savings < -NetOfTick
  /\ last.stats.debt > game.stats.debt
  /\ last.stats.budget = game.stats.income - game.stats.fixedExpenses
  /\ last.stats.budget > 0

----------------------------------------------------------------------------
(* C29: a fresh game after New Game, Replay Scenario and a scenario switch. *)

\* C29: after New Game, Replay Scenario or a scenario switch the stats are
\* the preset of the selected scenario (the classic preset for custom) with
\* month 1, lastSeen is empty, lastEventId and lastTag are unset, and
\* gameOver is false with no result; New Game and Replay keep the scenario.
FreshAfterRestart ==
  [][last'.op \in {"NewGame", "Replay", "SelectScenario"} =>
       /\ game'.stats
            = initialStatsForScenario(IF game'.scenarioId = "custom"
                                      THEN "classic" ELSE game'.scenarioId)
       /\ game'.stats.month = 1
       /\ game'.lastSeen = EmptyMap
       /\ game'.lastEventId = Undefined
       /\ game'.lastTag = Undefined
       /\ ~game'.gameOver
       /\ game'.result = Undefined
       /\ last'.op # "SelectScenario" => game'.scenarioId = game.scenarioId]_vars

\* A finished custom game was replayed: its stats are the classic preset.
FreshAfterRestartWitness ==
  /\ last.op = "Replay"
  /\ game.scenarioId = "custom"
  /\ game.winCondition # NoWinCondition
  /\ game.stats = baseStats
  /\ game.lastSeen = EmptyMap
  /\ ~game.gameOver

----------------------------------------------------------------------------
(* C30: the custom catalog changes only when a deck is installed. *)

\* C30: only the installation of a deck on a successful response changes the
\* custom catalog: New Game, Replay, scenario switches, committed choices and
\* ticks leave it as it was; and an event picked in the custom scenario while
\* a deck is installed is one of that deck.
CatalogChangesOnlyOnInstall ==
  [][/\ customEvents' # customEvents => last'.op = "ResponseOk"
     /\ last'.op \in {"NewGame", "Replay", "SelectScenario",
                       "handleConfirmSelection", "handleNext"} =>
          customEvents' = customEvents
     /\ ( /\ last'.op \in {"Replay", "handleNext"}
          /\ game'.scenarioId = "custom"
          /\ ~game'.gameOver
          /\ Len(customEvents) > 0 ) =>
          \E i \in 1..Len(customEvents) : event' = customEvents[i]]_vars

\* Back in the custom scenario with the survey cancelled, a choice of the
\* event left over from another scenario was committed, and Next picked an
\* event of the deck installed earlier.
CatalogChangesOnlyOnInstallWitness ==
  /\ last.op = "handleNext"
  /\ game.scenarioId = "custom"
  /\ Len(customEvents) > 2
  /\ game.lastEventId # Undefined
  /\ \A i \in 1..Len(customEvents) : customEvents[i].id # game.lastEventId
  /\ \E i \in 1..Len(customEvents) : event = customEvents[i]

----------------------------------------------------------------------------
(* C31: a generation call that fails. *)

\* C31: a generation call that fails (a response that is not OK, a network
\* error, an exception after the response arrived) leaves the custom catalog
\* and the game as they were, records an error message, leaves the survey
\* open and ends with loadingAi false.
FailedGenerationChangesNothing ==
  [][last'.op \in {"ResponseFail", "ResponseNoEvents", "ResponseBadElement"} =>
       /\ customEvents' = customEvents
       /\ game' = game
       /\ aiError'
       /\ showSurvey' = showSurvey
       /\ ~loadingAi']_vars

----------------------------------------------------------------------------
(* C32: settlement conserves money. *)

\* C32: after settlement and before interest, savings - debt is the given
\* savings - debt plus net (income - fixedExpenses - impulse spend), in the
\* surplus branch, the branch covered from savings and the borrowing branch;
\* and the debt a tick returns is never below the debt it was given.
SettlementConservesMoney ==
  last.op = "endOfPeriodTick" =>
    /\ last.tick.settled.savings - last.tick.settled.debt
         = game.stats.savings - game.stats.debt + NetOfTick
    /\ last.stats.debt >= game.stats.debt

\* A deficit larger than positive savings was settled by emptying the savings
\* and borrowing the rest.
SettlementConservesMoneyWitness ==
  /\ last.op = "endOfPeriodTick"
  /\ NetOfTick < 0
  /\ game.stats.savings > 0
  /\ game.stats.savings < -NetOfTick
  /\ last.tick.settled.savings = 0
  /\ last.tick.settled.debt = game.stats.debt - NetOfTick - game.stats.savings

----------------------------------------------------------------------------
(* C33: lastSeen and lastEventId agree. *)

\* C33: in every reachable game state every month recorded in lastSeen is
\* <= stats.month, and when lastEventId is set, lastSeen[lastEventId] is
\* defined and is >= every other month in lastSeen.
LastSeenConsistent ==
  /\ \A id \in DOMAIN game.lastSeen : game.lastSeen[id] <= game.stats.month
  /\ game.lastEventId # Undefined =>
       /\ game.lastEventId \in DOMAIN game.lastSeen
       /\ \A id \in DOMAIN game.lastSeen :
            game.lastSeen[id] <= game.lastSeen[game.lastEventId]

\* Two events were committed in different months: the last one is the later.
LastSeenConsistentWitness ==
  /\ game.lastEventId # Undefined
  /\ game.lastEventId \in DOMAIN game.lastSeen
  /\ \E id \in DOMAIN game.lastSeen :
       game.lastSeen[id] < game.lastSeen[game.lastEventId]
  /\ game.lastSeen[game.lastEventId] = game.stats.month

----------------------------------------------------------------------------
(* C34: the presented event and the active scenario's catalog. *)

\* C34: whenever the survey is not shown, the presented event is an event of
\* the catalog pickEvent resolves for the active scenarioId.
PresentedEventInCatalog ==
  ~SurveyShown => \E i \in 1..Len(PickPack) : event = PickPack[i]

----------------------------------------------------------------------------
(* C35: a response that arrives after the player moved on. *)

\* C35: when a response arrives while the running game is of a built-in
\* scenario (the player switched while the request was outstanding), it
\* changes neither the game's scenarioId, nor its stats, nor the presented
\* event.
LateResponseLeavesGameAlone ==
  [][(last'.op = "ResponseOk" /\ game.scenarioId # "custom") =>
       /\ game'.scenarioId = game.scenarioId
       /\ game'.stats = game.stats
       /\ event' = event]_vars

----------------------------------------------------------------------------
(* C36: a game that has ended. *)

\* C36: once a game has ended, at the game-over popup and after the popup
\* was closed, the stats do not change (no choice is committed, no tick is
\* applied) unless Replay Scenario, New Game or a scenario switch starts a
\* fresh game.
EndedGameStaysAsItIs ==
  [][(game.gameOver \/ last.op = "ClosePopup") =>
       \/ game'.stats = game.stats
       \/ last'.op \in {"Replay", "NewGame", "SelectScenario"}]_vars

----------------------------------------------------------------------------
(* C37: budget in every game state. *)

\* C37: in every reachable game state, the initial state of each scenario
\* included, stats.budget = stats.income - stats.fixedExpenses.
BudgetDerivedInEveryState ==
  game.stats.budget = game.stats.income - game.stats.fixedExpenses

----------------------------------------------------------------------------
(* C38: debt in play of the built-in scenarios. *)

\* C38: in every state reached by committed choices and ticks from the
\* preset of a built-in scenario, debt >= 0.
DebtNonNegativeInPlay == game.stats.debt >= 0

----------------------------------------------------------------------------
(* C39: the turn loop does not get stuck. *)

\* C39: in every reachable state in which an event is presented and the game
\* is not over, for the built-in catalogs and for any generated deck, the
\* player can commit some choice of the presented event when none was
\* committed yet, and after a commit Next presents an event.
TurnLoopNeverStuck ==
  (~SurveyShown /\ ~game.gameOver) =>
    /\ choiceMade = Undefined => ENABLED handleConfirmSelection
    /\ choiceMade # Undefined =>
         \A u1 \in Draws, u2 \in Draws, u \in Draws :
           LET next == TickGame(game, u1, u2)
           IN /\ next.stats.month = game.stats.month + 1
              /\ ~next.gameOver =>
                   pickEvent(next, customEvents, u) # UndefinedEvent

============================================================================
